---- MODULE Spec2Model ----
(***************************************************************************)
(* Model of InterferenceVisibility/data_elab.py: the per-setpoint          *)
(* amplitude estimation (interference_voltage_estimation), the settle      *)
(* wait (set_and_wait) and the sweep-level analysis (main); and of the     *)
(* read retry of devices/OscilloscopeDPO70k.py (Oscilloscope.readVolt_bin).*)
(*                                                                         *)
(* Numbers.  Voltages, temperatures and amplitudes are small integers.     *)
(* SETTINGS["period"] is carried in half units (period_x2 = 2 * period) so *)
(* that int(period * sampling_rate) has a fractional part to truncate.     *)
(* A mean is an exact fraction <<num, den>> in lowest terms; a standard    *)
(* deviation is held by its square, the exact fraction under the square    *)
(* root, so that <<1, 1>> stands for sqrt(1) = 1.0.  NaN is <<0, 0>>.      *)
(***************************************************************************)
EXTENDS Integers, Sequences, FiniteSets, TLC

VARIABLES
    SETTINGS,                \* settings.json, loaded once at import
    signal,                  \* the waveform the oscilloscope will deliver
    pc,                      \* position in interference_voltage_estimation
    voltages,                \* the acquired trace (line 40)
    reads,                   \* number of osc.readVolt() calls issued
    chunks,                  \* the windows kept by line 47
    ci,                      \* 1-based position of the for loop of line 55
    chunk,                   \* the window of the current iteration
    interference_peak_index, \* the index selected in the current iteration
    heights,                 \* the AmplitudeSamples (line 48, 102)
    vai,                     \* the one-shot debug flag (line 54, 107)
    plots,                   \* number of plt.show() calls of line 115
    fitlog,                  \* history: what each window's iteration did
    result,                  \* the returned (mean, std)
    \* set_and_wait
    wait_pc,                 \* position in set_and_wait
    end,                     \* the target temperature
    tolerance,               \* the settle tolerance
    count,                   \* the debounce counter (line 129)
    tec_log,                 \* history: the calls made on the TEC, in order
    \* main
    main_pc,                 \* position in main
    sweep,                   \* SETTINGS["TEC"]: start, end, step
    temperatures,            \* the setpoints of the sweep (line 168)
    interference,            \* the TemperaturePoints collected (line 175)
    data_to_save,            \* the record built at line 180
    data,                    \* the record loaded from SOURCE (line 185)
    fit_input,               \* history: the points handed to initial_guess and curve_fit
    printed,                 \* history: the lines printed, in order
    \* repeated calls of interference_voltage_estimation
    calls,                   \* number of calls begun, the one in progress included
    \* Oscilloscope.readVolt_bin
    osc_pc,                  \* position in readVolt_bin
    initial_time,            \* time_ns() of line 175, in seconds
    now,                     \* the wall clock, in seconds
    read_log                 \* history: each read_raw attempt and what followed

estVars == <<SETTINGS, signal, pc, voltages, reads, chunks, ci, chunk,
             interference_peak_index, heights, vai, plots, fitlog, result, calls>>
oscVars == <<osc_pc, initial_time, now, read_log>>
waitVars == <<wait_pc, end, tolerance, count, tec_log>>
mainVars == <<main_pc, sweep, temperatures, interference, data_to_save, data,
              fit_input, printed>>
vars == <<estVars, waitVars, mainVars, oscVars>>

----------------------------------------------------------------------------
(* Bounds of the model *)

MaxLen == 9        \* longest trace drawn for the estimation
MaxAmp == 3        \* fitted amplitudes are drawn from 1..MaxAmp
MaxWin == 9        \* longest window drawn for the peak selector
MaxTemp == 2       \* temperatures read from the TEC are drawn from 0..MaxTemp
MaxTol == 1        \* tolerances are drawn from 0..MaxTol
MaxPolls == 6      \* temperature readings of one settle wait
MaxPoints == 2     \* longest column of the loaded sweep record
MaxStop == 2       \* the sweep's end is drawn from 0..MaxStop
MaxCalls == 2      \* calls of interference_voltage_estimation in one run
MaxStep == 2       \* seconds one read_raw attempt may take, 0..MaxStep
MaxAttempts == 5   \* read_raw attempts of one readVolt_bin call
MaxStart == 1      \* the clock at the call is drawn from 0..MaxStart

RetryBudget == 3   \* 3e9 ns, line 181

Volts == {0, 1}            \* sample values of the estimation traces
WinVolts == {0, 1, 2}      \* sample values of the peak selector's windows
Rates == {1, 2}            \* SETTINGS["sampling_rate"]
PeriodsX2 == {-1, 0, 2, 3, 4} \* 2 * SETTINGS["period"]
Delays == {0, 1, 2}        \* SETTINGS["delay"]
Amps == 1..MaxAmp

NaN == <<0, 0>>
None == "none"

----------------------------------------------------------------------------
(* Arithmetic helpers *)

Min(a, b) == IF a <= b THEN a ELSE b
Max(a, b) == IF a >= b THEN a ELSE b
Abs(a) == IF a >= 0 THEN a ELSE -a

RECURSIVE Gcd(_, _)
Gcd(a, b) == IF b = 0 THEN a ELSE Gcd(b, a % b)

\* the fraction n/d (d > 0) in lowest terms
Frac(n, d) == LET g == Gcd(Abs(n), d) IN <<n \div g, d \div g>>

\* Python int() of the float n/d, d > 0: truncation toward zero
TruncToInt(n, d) == IF n >= 0 THEN n \div d ELSE -((-n) \div d)

\* 0-based indexing, as in the source
At(s, i) == s[i + 1]

RECURSIVE SeqSum(_)
SeqSum(s) == IF s = <<>> THEN 0 ELSE s[1] + SeqSum(Tail(s))

SeqsUpTo(S, n) == UNION {[1..k -> S] : k \in 0..n}

----------------------------------------------------------------------------
(* chunk_array and the derived settings *)

\* the mutant keeps a trailing chunk only when it is full
chunk_array_full_only(arr, size) ==
    [k \in 1..(Len(arr) \div size) |->
        SubSeq(arr, (k - 1) * size + 1, k * size)]

\* [arr[i:i + size] for i in range(0, len(arr), size)], size > 0
chunk_array(arr, size) ==
    [k \in 1..((Len(arr) + size - 1) \div size) |->
        SubSeq(arr, (k - 1) * size + 1, Min(k * size, Len(arr)))]

\* the slice [1:]
DropFirst(s) == IF s = <<>> THEN <<>> ELSE Tail(s)

\* sampling_period = int(SETTINGS["period"] * sampling_rate)
sampling_period(S) == TruncToInt(S.period_x2 * S.sampling_rate, 2)

\* delay_samples = int((delay * sampling_rate) // 2), at least 1
delay_samples(S) ==
    LET d == (S.delay * S.sampling_rate) \div 2
    IN  IF d < 1 THEN 1 ELSE d

----------------------------------------------------------------------------
(* scipy.signal.find_peaks(chunk)[0]: strict local maxima, a flat top
   counting once at its middle sample; the first and last samples never. *)

RECURSIVE PlateauEnd(_, _, _)
PlateauEnd(x, i, i_ahead) ==
    IF i_ahead < Len(x) - 1 /\ At(x, i_ahead) = At(x, i)
    THEN PlateauEnd(x, i, i_ahead + 1)
    ELSE i_ahead

RECURSIVE LocalMaxima(_, _)
LocalMaxima(x, i) ==
    IF i >= Len(x) - 1 THEN <<>>
    ELSE IF At(x, i - 1) < At(x, i)
         THEN LET i_ahead == PlateauEnd(x, i, i + 1)
              IN  IF At(x, i_ahead) < At(x, i)
                  THEN <<(i + i_ahead - 1) \div 2>> \o LocalMaxima(x, i_ahead + 1)
                  ELSE LocalMaxima(x, i + 1)
         ELSE LocalMaxima(x, i + 1)

\* the mutant lets a rising last sample count as a peak
find_peaks_with_last(x) ==
    IF Len(x) >= 2 /\ At(x, Len(x) - 2) < At(x, Len(x) - 1)
    THEN LocalMaxima(x, 1) \o <<Len(x) - 1>>
    ELSE LocalMaxima(x, 1)

find_peaks(x) == LocalMaxima(x, 1)

----------------------------------------------------------------------------
(* The Peak Selector, lines 65-82 *)

\* arr = [[index_in_chunk, height], ...] in index order
Candidates(c) ==
    LET peaks == find_peaks(c)
    IN  [i \in 1..Len(peaks) |-> <<peaks[i], At(c, peaks[i])>>]

\* sorted(arr, key=height, reverse=True): stable, equal heights keep their order
RECURSIVE SortByHeightDesc(_)
SortByHeightDesc(arr) ==
    IF arr = <<>> THEN <<>>
    ELSE LET rest == SortByHeightDesc(SubSeq(arr, 1, Len(arr) - 1))
             e == arr[Len(arr)]
             NotLower(p) == p[2] >= e[2]
             Lower(p) == p[2] < e[2]
         IN  SelectSeq(rest, NotLower) \o <<e>> \o SelectSeq(rest, Lower)

\* sorted(arr, key=index): the indices are distinct
RECURSIVE SortByPos(_)
SortByPos(arr) ==
    IF arr = <<>> THEN <<>>
    ELSE LET rest == SortByPos(SubSeq(arr, 1, Len(arr) - 1))
             e == arr[Len(arr)]
             Before(p) == p[1] <= e[1]
             After(p) == p[1] > e[1]
         IN  SelectSeq(rest, Before) \o <<e>> \o SelectSeq(rest, After)

\* the mutant forgets the re-sort by position: the second highest peak
SelectPeakSecondHighest(arr) ==
    IF Len(arr) < 3 THEN arr[1][1] ELSE arr[2][1]

\* arr is sorted by height, descending, and is not empty
SelectPeak(arr) ==
    IF Len(arr) < 3
    THEN arr[1][1]
    ELSE LET top3_by_height == SubSeq(arr, 1, 3)
             top3_sorted_by_pos == SortByPos(top3_by_height)
         IN  top3_sorted_by_pos[2][1]

----------------------------------------------------------------------------
(* The sub-window of the Gaussian fit, lines 85-89 *)

Low(idx, d) == Max(0, idx - d)
\* the mutant takes the sub-window up to idx + d inclusive
HighInclusive(n, idx, d) == Min(n, idx + d + 1)

High(n, idx, d) == Min(n, idx + d)

\* the mutant lets two-sample sub-windows through
TooFewBelow2(low, high) == high - low < 2

TooFew(low, high) == high - low < 3

----------------------------------------------------------------------------
(* The Aggregator, lines 120-123 *)

RECURSIVE SqDev(_, _, _)
\* sum of (n * x - s)^2 over x in h: n^2 times the summed squared deviations
SqDev(h, n, s) ==
    IF h = <<>> THEN 0
    ELSE (n * h[1] - s) * (n * h[1] - s) + SqDev(Tail(h), n, s)

\* np.mean
Mean(h) == Frac(SeqSum(h), Len(h))

\* np.std, ddof = 0, squared
Std(h) ==
    LET n == Len(h) IN Frac(SqDev(h, n, SeqSum(h)), n * n * n)

\* the mutant is the sample (ddof = 1) statistic
AggregateSample(h) ==
    IF Len(h) = 0 THEN <<NaN, NaN>>
    ELSE IF Len(h) = 1 THEN <<Mean(h), NaN>>
    ELSE LET n == Len(h)
         IN  <<Mean(h), Frac(SqDev(h, n, SeqSum(h)), n * n * (n - 1))>>

Aggregate(h) ==
    IF Len(h) = 0 THEN <<NaN, NaN>> ELSE <<Mean(h), Std(h)>>

----------------------------------------------------------------------------
(* interference_voltage_estimation, lines 35-123 *)

\* the mutant records a failed fit as a zero amplitude
OnFitFailureAppendsZero(h) == Append(h, 0)

\* except Exception: continue (lines 116-118)
OnFitFailure(h) == h

OscIdle ==
    /\ osc_pc = "idle"
    /\ initial_time = 0
    /\ now = 0
    /\ read_log = <<>>

WaitIdle ==
    /\ wait_pc = "idle"
    /\ end = 0
    /\ tolerance = 0
    /\ count = 0
    /\ tec_log = <<>>

MainIdle ==
    /\ main_pc = "idle"
    /\ sweep = None
    /\ temperatures = <<>>
    /\ interference = <<>>
    /\ data_to_save = None
    /\ data = None
    /\ fit_input = <<>>
    /\ printed = <<>>

SettingsSet ==
    [sampling_rate : Rates, period_x2 : PeriodsX2, delay : Delays, debug : BOOLEAN]

\* period = 1 s at 100 samples/s: 100 samples per window
ExampleSettings ==
    [sampling_rate |-> 100, period_x2 |-> 2, delay |-> 2, debug |-> FALSE]

\* five and a half periods, one spike in the middle of each period
ExampleTrace ==
    [i \in 1..(5 * 100 + 100 \div 2) |-> IF i % 100 = 50 THEN 1 ELSE 0]

EstIdle ==
    /\ pc = "start"
    /\ voltages = <<>>
    /\ reads = 0
    /\ chunks = <<>>
    /\ ci = 0
    /\ chunk = <<>>
    /\ interference_peak_index = None
    /\ heights = <<>>
    /\ vai = FALSE
    /\ plots = 0
    /\ fitlog = <<>>
    /\ result = None
    /\ calls = 1

EstInit ==
    /\ \/ SETTINGS \in SettingsSet /\ signal \in SeqsUpTo(Volts, MaxLen)
       \/ SETTINGS = ExampleSettings /\ signal = ExampleTrace
    /\ EstIdle
    /\ WaitIdle
    /\ MainIdle
    /\ OscIdle

\* line 40: voltages = np.asarray(osc.readVolt()[0])
ReadVolt ==
    /\ pc = "start"
    /\ voltages' = signal
    /\ reads' = reads + 1
    /\ pc' = "acquired"
    /\ UNCHANGED <<waitVars, mainVars, oscVars, calls>>
    /\ UNCHANGED <<SETTINGS, signal, chunks, ci, chunk, interference_peak_index,
                   heights, vai, plots, fitlog, result>>

\* lines 42-45: the derived period is not positive
RaiseValueError ==
    /\ pc = "acquired"
    /\ sampling_period(SETTINGS) <= 0
    /\ pc' = "raised"
    /\ UNCHANGED <<waitVars, mainVars, oscVars, calls>>
    /\ UNCHANGED <<SETTINGS, signal, voltages, reads, chunks, ci, chunk,
                   interference_peak_index, heights, vai, plots, fitlog, result>>

\* lines 42-54: segment, drop the first chunk, set up the loop
Segment ==
    /\ pc = "acquired"
    /\ sampling_period(SETTINGS) > 0
    /\ chunks' = DropFirst(chunk_array(voltages, sampling_period(SETTINGS)))
    /\ heights' = <<>>
    /\ vai' = SETTINGS.debug
    /\ ci' = 1
    /\ pc' = "loop"
    /\ UNCHANGED <<waitVars, mainVars, oscVars, calls>>
    /\ UNCHANGED <<SETTINGS, signal, voltages, reads, chunk,
                   interference_peak_index, plots, fitlog, result>>

InLoop == pc = "loop" /\ ci <= Len(chunks)

CurIdx == SelectPeak(SortByHeightDesc(Candidates(chunks[ci])))
CurLow == Low(CurIdx, delay_samples(SETTINGS))
CurHigh == High(Len(chunks[ci]), CurIdx, delay_samples(SETTINGS))

\* plotted: the iteration reached plt.show() (lines 104-115)
LogEntry(outcome, idx, low, high) ==
    [outcome |-> outcome, n |-> Len(chunks[ci]), idx |-> idx,
     low |-> low, high |-> high, plotted |-> outcome = "fit_ok" /\ vai]

\* lines 56-63: an empty window or a window without peaks is skipped
SkipNoPeaks ==
    /\ InLoop
    /\ Len(chunks[ci]) = 0 \/ find_peaks(chunks[ci]) = <<>>
    /\ chunk' = chunks[ci]
    /\ ci' = ci + 1
    /\ fitlog' = Append(fitlog, LogEntry("no_peaks", None, None, None))
    /\ UNCHANGED <<waitVars, mainVars, oscVars, calls>>
    /\ UNCHANGED <<SETTINGS, signal, pc, voltages, reads, chunks,
                   interference_peak_index, heights, vai, plots, result>>

\* lines 65-89: the sub-window around the selected peak is too short
SkipTooFew ==
    /\ InLoop
    /\ Len(chunks[ci]) # 0 /\ find_peaks(chunks[ci]) # <<>>
    /\ TooFew(CurLow, CurHigh)
    /\ chunk' = chunks[ci]
    /\ interference_peak_index' = CurIdx
    /\ ci' = ci + 1
    /\ fitlog' = Append(fitlog, LogEntry("too_few", CurIdx, CurLow, CurHigh))
    /\ UNCHANGED <<waitVars, mainVars, oscVars, calls>>
    /\ UNCHANGED <<SETTINGS, signal, pc, voltages, reads, chunks,
                   heights, vai, plots, result>>

\* lines 90-115: curve_fit returns; A is appended, the first success is plotted
FitSucceeds ==
    /\ InLoop
    /\ Len(chunks[ci]) # 0 /\ find_peaks(chunks[ci]) # <<>>
    /\ ~TooFew(CurLow, CurHigh)
    /\ \E A \in Amps : heights' = Append(heights, A)
    /\ IF vai THEN vai' = FALSE /\ plots' = plots + 1
              ELSE UNCHANGED <<vai, plots>>
    /\ chunk' = chunks[ci]
    /\ interference_peak_index' = CurIdx
    /\ ci' = ci + 1
    /\ fitlog' = Append(fitlog, LogEntry("fit_ok", CurIdx, CurLow, CurHigh))
    /\ UNCHANGED <<waitVars, mainVars, oscVars, calls>>
    /\ UNCHANGED <<SETTINGS, signal, pc, voltages, reads, chunks, result>>

\* lines 99-100, 116-118: curve_fit raises
FitFails ==
    /\ InLoop
    /\ Len(chunks[ci]) # 0 /\ find_peaks(chunks[ci]) # <<>>
    /\ ~TooFew(CurLow, CurHigh)
    /\ heights' = OnFitFailure(heights)
    /\ chunk' = chunks[ci]
    /\ interference_peak_index' = CurIdx
    /\ ci' = ci + 1
    /\ fitlog' = Append(fitlog, LogEntry("fit_failed", CurIdx, CurLow, CurHigh))
    /\ UNCHANGED <<waitVars, mainVars, oscVars, calls>>
    /\ UNCHANGED <<SETTINGS, signal, pc, voltages, reads, chunks,
                   vai, plots, result>>

\* lines 120-123
Return ==
    /\ pc = "loop"
    /\ ci > Len(chunks)
    /\ result' = Aggregate(heights)
    /\ pc' = "done"
    /\ UNCHANGED <<waitVars, mainVars, oscVars, calls>>
    /\ UNCHANGED <<SETTINGS, signal, voltages, reads, chunks, ci, chunk,
                   interference_peak_index, heights, vai, plots, fitlog>>

EstNext ==
    \/ ReadVolt
    \/ RaiseValueError
    \/ Segment
    \/ SkipNoPeaks
    \/ SkipTooFew
    \/ FitSucceeds
    \/ FitFails
    \/ Return

Spec == EstInit /\ [][EstNext]_vars

----------------------------------------------------------------------------
(* A run that acquires more than one setpoint: the estimation is called
   again after it returned, with the same SETTINGS and oscilloscope. *)

\* the next setpoint's call: the locals of the previous call are gone,
\* the oscilloscope and the figures shown so far are not
CallAgain ==
    /\ pc = "done"
    /\ calls < MaxCalls
    /\ calls' = calls + 1
    /\ pc' = "start"
    /\ voltages' = <<>>
    /\ chunks' = <<>>
    /\ ci' = 0
    /\ chunk' = <<>>
    /\ interference_peak_index' = None
    /\ heights' = <<>>
    /\ vai' = FALSE
    /\ fitlog' = <<>>
    /\ result' = None
    /\ UNCHANGED <<SETTINGS, signal, reads, plots>>
    /\ UNCHANGED <<waitVars, mainVars, oscVars>>

CallsNext == EstNext \/ CallAgain

SpecCalls == EstInit /\ [][CallsNext]_vars

----------------------------------------------------------------------------
(* The Peak Selector on its own: one window in, one index or a skip out *)

\* peaks at positions 5, 50, 95 with heights 3, 9, 1
ExampleWindow ==
    [i \in 1..100 |-> IF i = 6 THEN 3 ELSE IF i = 51 THEN 9
                      ELSE IF i = 96 THEN 1 ELSE 0]

PeakInit ==
    /\ chunk \in SeqsUpTo(WinVolts, MaxWin) \cup {ExampleWindow}
    /\ pc = "window"
    /\ interference_peak_index = None
    /\ SETTINGS = None
    /\ signal = <<>>
    /\ voltages = <<>>
    /\ reads = 0
    /\ chunks = <<>>
    /\ ci = 0
    /\ heights = <<>>
    /\ vai = FALSE
    /\ plots = 0
    /\ fitlog = <<>>
    /\ result = None
    /\ calls = 1
    /\ WaitIdle
    /\ MainIdle
    /\ OscIdle

\* lines 61-63
PeakSkip ==
    /\ pc = "window"
    /\ find_peaks(chunk) = <<>>
    /\ pc' = "skipped"
    /\ UNCHANGED <<waitVars, mainVars, oscVars, calls>>
    /\ UNCHANGED <<SETTINGS, signal, voltages, reads, chunks, ci, chunk,
                   interference_peak_index, heights, vai, plots, fitlog, result>>

\* lines 65-82
PeakSelect ==
    /\ pc = "window"
    /\ find_peaks(chunk) # <<>>
    /\ interference_peak_index' = SelectPeak(SortByHeightDesc(Candidates(chunk)))
    /\ pc' = "selected"
    /\ UNCHANGED <<waitVars, mainVars, oscVars, calls>>
    /\ UNCHANGED <<SETTINGS, signal, voltages, reads, chunks, ci, chunk,
                   heights, vai, plots, fitlog, result>>

PeakNext == PeakSkip \/ PeakSelect

SpecPeak == PeakInit /\ [][PeakNext]_vars

----------------------------------------------------------------------------
(* Claims *)

Range(s) == {s[i] : i \in 1..Len(s)}

\* C2: a non-positive derived segmentation period aborts before any
\* acquisition: when the ValueError is raised no osc.readVolt() has been issued.
C2_RaisedBeforeAnyRead == pc = "raised" => reads = 0

\* is x a strict local maximum of window c, flat tops counted at their middle
PeakSet(c) == Range(find_peaks(c))

\* T holds the three best candidates of c: higher first, earlier first on a tie
IsTop3(c, T) ==
    /\ T \subseteq PeakSet(c)
    /\ Cardinality(T) = 3
    /\ \A m \in T : \A q \in PeakSet(c) \ T :
          \/ At(c, m) > At(c, q)
          \/ At(c, m) = At(c, q) /\ m < q

IsMedianOf(x, T) ==
    /\ x \in T
    /\ Cardinality({m \in T : m < x}) = 1
    /\ Cardinality({m \in T : m > x}) = 1

\* C3: for a window with at least 3 candidate peaks the selected index is a
\* member of the top-3-by-height set and is the middle one of the three by
\* position; peaks at [5, 50, 95] with heights [3, 9, 1] select index 50.
C3_MedianOfTop3 ==
    (pc = "selected" /\ Cardinality(PeakSet(chunk)) >= 3) =>
        /\ \E T \in SUBSET PeakSet(chunk) :
              IsTop3(chunk, T) /\ IsMedianOf(interference_peak_index, T)
        /\ chunk = ExampleWindow => interference_peak_index = 50

\* a window with four peaks, one of them lower than the selected one
C3_Witness ==
    /\ pc = "selected"
    /\ Cardinality(PeakSet(chunk)) >= 4
    /\ \E q \in PeakSet(chunk) : At(chunk, q) < At(chunk, interference_peak_index)
    /\ \E T \in SUBSET PeakSet(chunk) :
          IsTop3(chunk, T) /\ IsMedianOf(interference_peak_index, T)

Segmented == pc \in {"loop", "done"}

\* C5: the windows are the contiguous, non-overlapping chunks of period_samples
\* from offset 0 without the first one, in order, a trailing short chunk of at
\* least one sample included, and each of them is processed; a trace of length
\* 5 * 100 + 50 with period 100 has 6 chunks, of which 5 are kept, the last of
\* length 50.
C5_Segmenter ==
    Segmented =>
        LET p == sampling_period(SETTINGS)
            n == Len(voltages)
        IN  /\ Len(chunks) = Cardinality({k \in 1..n : k * p < n})
            /\ \A k \in 1..Len(chunks) :
                  /\ chunks[k] = [j \in 1..(IF (k + 1) * p <= n THEN p ELSE n - k * p)
                                    |-> voltages[k * p + j]]
                  /\ Len(chunks[k]) >= 1
            /\ pc = "done" =>
                  /\ Len(fitlog) = Len(chunks)
                  /\ \A k \in 1..Len(chunks) : fitlog[k].n = Len(chunks[k])
            /\ (p = 100 /\ n = 550) =>
                  /\ Len(chunks) + 1 = 6
                  /\ Len(chunks) = 5
                  /\ Len(chunks[5]) = 50

C5_Witness ==
    /\ pc = "done"
    /\ sampling_period(SETTINGS) = 100
    /\ Len(voltages) = 550
    /\ Len(chunks) = 5
    /\ Len(chunks[5]) = 50
    /\ Len(fitlog) = 5

FitsOk == {k \in 1..Len(fitlog) : fitlog[k].outcome = "fit_ok"}
FitsFailed == {k \in 1..Len(fitlog) : fitlog[k].outcome = "fit_failed"}

\* C6: a window whose fit raises contributes no AmplitudeSample, the remaining
\* windows are still processed and the call returns an aggregate: the number
\* of AmplitudeSamples equals the number of windows whose fit succeeded.
C6_FitFailureSkipped ==
    /\ Segmented => Len(heights) = Cardinality(FitsOk)
    /\ pc = "raised" => fitlog = <<>>
    /\ pc = "done" =>
          /\ Len(fitlog) = Len(chunks)
          /\ result # None
          /\ Len(result) = 2

\* a failed fit, then a successful one, and an aggregate that is not NaN
C6_Witness ==
    /\ pc = "done"
    /\ \E i \in FitsFailed : \E j \in FitsOk : i < j
    /\ Len(heights) = Cardinality(FitsOk)
    /\ result[1] # NaN

RECURSIVE SumSq(_)
SumSq(h) == IF h = <<>> THEN 0 ELSE h[1] * h[1] + SumSq(Tail(h))

\* C7: (NaN, NaN) is returned exactly when there is no AmplitudeSample;
\* otherwise the mean and the population (ddof = 0) standard deviation,
\* [1.0, 3.0] giving (2.0, 1.0).
C7_Aggregator ==
    pc = "done" =>
        LET n == Len(heights)
            s == SeqSum(heights)
        IN  /\ (result = <<NaN, NaN>>) <=> (n = 0)
            /\ n = 0 => result[1] = NaN /\ result[2] = NaN
            /\ n > 0 =>
                  /\ result[1] # NaN /\ result[2] # NaN
                  \* mean = s / n
                  /\ result[1][1] * n = result[1][2] * s
                  \* std^2 = E[x^2] - mean^2 = (n * sumsq - s^2) / n^2
                  /\ result[2][1] * n * n
                        = result[2][2] * (n * SumSq(heights) - s * s)
                  /\ result[1][2] > 0 /\ result[2][2] > 0
            /\ heights = <<1, 3>> => result = <<<<2, 1>>, <<1, 1>>>>

C7_Witness ==
    /\ pc = "done"
    /\ heights = <<1, 3>>
    /\ result = <<<<2, 1>>, <<1, 1>>>>

Attempted == {k \in 1..Len(fitlog) : fitlog[k].outcome \in {"fit_ok", "fit_failed"}}

\* C10: a fit is attempted only on [low, high) with low = max(0, idx - d) and
\* high = min(window_length, idx + d); a sub-window of fewer than 3 samples is
\* skipped without a fit, so every attempted fit has at least 3 samples and
\* its sub-window contains the selected peak index.
C10_SubWindow ==
    \A k \in 1..Len(fitlog) :
        LET e == fitlog[k]
            d == delay_samples(SETTINGS)
        IN  e.outcome # "no_peaks" =>
              /\ e.low = (IF e.idx - d > 0 THEN e.idx - d ELSE 0)
              /\ e.high = (IF e.idx + d < e.n THEN e.idx + d ELSE e.n)
              /\ (e.high - e.low < 3) <=> (e.outcome = "too_few")
              /\ k \in Attempted =>
                    /\ e.high - e.low >= 3
                    /\ e.low <= e.idx /\ e.idx < e.high

\* an attempted fit on a sub-window of exactly 3 samples, clipped on both sides
C10_Witness ==
    \E k \in Attempted :
        /\ fitlog[k].high - fitlog[k].low = 3
        /\ fitlog[k].low = 0
        /\ fitlog[k].high = fitlog[k].n
        /\ fitlog[k].idx = 1

----------------------------------------------------------------------------
(* set_and_wait, lines 126-135 *)

\* the mutant keeps the counter on an out-of-tolerance reading
NextCountNoReset(c, reading, target, tol) ==
    IF Abs(reading - target) > tol THEN c ELSE c + 1

\* lines 131-134: the counter after one reading
NextCount(c, reading, target, tol) ==
    IF Abs(reading - target) > tol THEN 0 ELSE c + 1

WaitInit ==
    /\ wait_pc = "start"
    /\ end \in 0..MaxTemp
    /\ tolerance \in 0..MaxTol
    /\ count = 0
    /\ tec_log = <<>>
    /\ SETTINGS = None
    /\ signal = <<>>
    /\ EstIdle
    /\ MainIdle
    /\ OscIdle

\* lines 127-129
SetTemperature ==
    /\ wait_pc = "start"
    /\ tec_log' = Append(tec_log, <<"set", end>>)
    /\ count' = 0
    /\ wait_pc' = "poll"
    /\ UNCHANGED <<end, tolerance>>
    /\ UNCHANGED <<estVars, mainVars, oscVars>>

\* lines 130-135: one tec.read_temperature() and what follows it
ReadTemperature ==
    /\ wait_pc = "poll"
    /\ Len(tec_log) <= MaxPolls
    /\ \E reading \in 0..MaxTemp :
          /\ tec_log' = Append(tec_log, <<"read", reading>>)
          /\ count' = NextCount(count, reading, end, tolerance)
    /\ wait_pc' = IF count' < 3 THEN "poll" ELSE "returned"
    /\ UNCHANGED <<end, tolerance>>
    /\ UNCHANGED <<estVars, mainVars, oscVars>>

WaitNext == SetTemperature \/ ReadTemperature

SpecWait == WaitInit /\ [][WaitNext]_vars

InTolerance(entry) == entry[1] = "read" /\ Abs(entry[2] - end) <= tolerance

\* the number of in-tolerance readings at the end of the log
RECURSIVE TrailingInTolerance(_)
TrailingInTolerance(log) ==
    IF log = <<>> \/ ~InTolerance(log[Len(log)]) THEN 0
    ELSE 1 + TrailingInTolerance(SubSeq(log, 1, Len(log) - 1))

\* C4: the setpoint is issued before any temperature is read, an
\* out-of-tolerance reading resets the count of consecutive readings to zero,
\* and set_and_wait returns only when the 3 most recent readings were each
\* within tolerance of the target.
C4_SettleWait ==
    /\ tec_log # <<>> =>
          /\ tec_log[1] = <<"set", end>>
          /\ \A i \in 2..Len(tec_log) : tec_log[i][1] = "read"
    /\ wait_pc \in {"poll", "returned"} => count = TrailingInTolerance(tec_log)
    /\ wait_pc = "poll" => count < 3
    /\ wait_pc = "returned" =>
          /\ Len(tec_log) >= 4
          /\ \A i \in (Len(tec_log) - 2)..Len(tec_log) : InTolerance(tec_log[i])

\* returned after an out-of-tolerance reading interrupted two good ones
C4_Witness ==
    /\ wait_pc = "returned"
    /\ Len(tec_log) = 7
    /\ InTolerance(tec_log[2]) /\ InTolerance(tec_log[3])
    /\ ~InTolerance(tec_log[4])

----------------------------------------------------------------------------
(* main, lines 158-234 *)

\* np.arange(start, stop, step), step > 0
Arange(start, stop, step) ==
    [i \in 1..(IF stop > start THEN (stop - start + step - 1) \div step ELSE 0)
        |-> start + (i - 1) * step]

HasNaN(y) == \E i \in 1..Len(y) : y[i] = NaN

\* min and max of the numerators of a column without NaN
ColMin(y) == CHOOSE v \in {y[i][1] : i \in 1..Len(y)} :
                 \A i \in 1..Len(y) : v <= y[i][1]
ColMax(y) == CHOOSE v \in {y[i][1] : i \in 1..Len(y)} :
                 \A i \in 1..Len(y) : v >= y[i][1]

\* lines 138-155; k is 2 pi / span, or 1.0 when span = 0, phi is 0;
\* np.min of an empty y raises (raised), np.min of a y with a NaN is NaN
initial_guess(x, y) ==
    IF Len(x) = 0
    THEN [A |-> <<0, 1>>, B |-> <<1, 1>>, span |-> 0, raised |-> FALSE]
    ELSE [A |-> IF Len(y) = 0 \/ HasNaN(y) THEN NaN ELSE <<ColMin(y), 1>>,
          B |-> IF Len(y) = 0 \/ HasNaN(y) THEN NaN
                ELSE <<ColMax(y) - ColMin(y), 1>>,
          raised |-> Len(y) = 0,
          span |-> LET xs == {x[i] : i \in 1..Len(x)}
                   IN  (CHOOSE v \in xs : \A w \in xs : v >= w)
                       - (CHOOSE v \in xs : \A w \in xs : v <= w)]

MeanVals == {NaN, <<0, 1>>, <<1, 1>>, <<2, 1>>}

\* what SOURCE may hold: columns, or the list of records main itself builds
SourceRecords ==
    {[layout |-> l, temperature |-> t, mean |-> m,
      std |-> [i \in 1..Len(m) |-> IF m[i] = NaN THEN NaN ELSE <<0, 1>>]] :
        l \in {"columns", "records"},
        t \in SeqsUpTo(0..1, MaxPoints),
        m \in SeqsUpTo(MeanVals, MaxPoints)}

MainInit ==
    /\ main_pc = "start"
    /\ sweep \in [start : 0..1, end : 0..MaxStop, step : 1..2]
    /\ temperatures = <<>>
    /\ interference = <<>>
    /\ data_to_save = None
    /\ data = None
    /\ fit_input = <<>>
    /\ printed = <<>>
    /\ SETTINGS = None
    /\ signal = <<>>
    /\ EstIdle
    /\ WaitIdle
    /\ OscIdle

\* lines 159-183: the devices, the setpoints, the (empty) collection
MainSetup ==
    /\ main_pc = "start"
    /\ temperatures' = Arange(sweep.start, sweep.end, sweep.step)
    /\ interference' = <<>>
    /\ data_to_save' = [data |-> interference']
    /\ main_pc' = "setup"
    /\ UNCHANGED <<sweep, data, fit_input, printed>>
    /\ UNCHANGED <<estVars, waitVars, oscVars>>

\* lines 184-190: SOURCE holds columns
MainLoad ==
    /\ main_pc = "setup"
    /\ \E d \in SourceRecords : d.layout = "columns" /\ data' = d
    /\ main_pc' = "loaded"
    /\ UNCHANGED <<sweep, temperatures, interference, data_to_save, fit_input, printed>>
    /\ UNCHANGED <<estVars, waitVars, oscVars>>

\* lines 184-188: SOURCE holds a list of records, bha["temperature"] raises
MainLoadRaises ==
    /\ main_pc = "setup"
    /\ \E d \in SourceRecords : d.layout = "records" /\ data' = d
    /\ main_pc' = "raised"
    /\ UNCHANGED <<sweep, temperatures, interference, data_to_save, fit_input, printed>>
    /\ UNCHANGED <<estVars, waitVars, oscVars>>

\* lines 191-193
MainNoData ==
    /\ main_pc = "loaded"
    /\ Len(data.temperature) = 0
    /\ printed' = Append(printed, "No valid interference data collected.")
    /\ main_pc' = "done"
    /\ UNCHANGED <<sweep, temperatures, interference, data_to_save, data, fit_input>>
    /\ UNCHANGED <<estVars, waitVars, oscVars>>

FitInput ==
    <<[temps |-> data.temperature, means |-> data.mean,
       p0 |-> initial_guess(data.temperature, data.mean)]>>

\* curve_fit rejects non-finite data and columns of different lengths
FitCanSucceed ==
    /\ ~HasNaN(data.mean)
    /\ Len(data.temperature) = Len(data.mean)

\* lines 205-226, 230-234: the fit returns, both visibilities are printed
MainFitSucceeds ==
    /\ main_pc = "loaded"
    /\ Len(data.temperature) # 0
    /\ FitCanSucceed
    /\ ColMax(data.mean) + ColMin(data.mean) # 0
    /\ fit_input' = FitInput
    /\ printed' = printed \o <<"Fitted Visibility", "Raw Visibility">>
    /\ main_pc' = "done"
    /\ UNCHANGED <<sweep, temperatures, interference, data_to_save, data>>
    /\ UNCHANGED <<estVars, waitVars, oscVars>>

\* lines 205-228, 230-234: the fit returns, (M - m) / (M + m) divides by zero
MainRawRaises ==
    /\ main_pc = "loaded"
    /\ Len(data.temperature) # 0
    /\ FitCanSucceed
    /\ ColMax(data.mean) + ColMin(data.mean) = 0
    /\ fit_input' = FitInput
    /\ printed' = printed \o <<"Fitted Visibility", "cos2 fit failed">>
    /\ main_pc' = "done"
    /\ UNCHANGED <<sweep, temperatures, interference, data_to_save, data>>
    /\ UNCHANGED <<estVars, waitVars, oscVars>>

\* lines 205-217, 227-234: curve_fit raises
MainFitFails ==
    /\ main_pc = "loaded"
    /\ Len(data.temperature) # 0
    /\ fit_input' = FitInput
    /\ printed' = Append(printed, "cos2 fit failed")
    /\ main_pc' = "done"
    /\ UNCHANGED <<sweep, temperatures, interference, data_to_save, data>>
    /\ UNCHANGED <<estVars, waitVars, oscVars>>

MainNext ==
    \/ MainSetup
    \/ MainLoad
    \/ MainLoadRaises
    \/ MainNoData
    \/ MainFitSucceeds
    \/ MainRawRaises
    \/ MainFitFails

SpecMain == MainInit /\ [][MainNext]_vars

\* C1: whatever the outcome of the cos2 fit, RawVisibility is reported; when
\* the fit fails the failure message is printed, no fitted visibility is, and
\* RawVisibility still is.
C1_RawVisibilityAlways ==
    (main_pc = "done" /\ fit_input # <<>>) =>
        /\ "Raw Visibility" \in Range(printed)
        /\ "Fitted Visibility" \notin Range(printed) =>
              "cos2 fit failed" \in Range(printed)

\* C8: no point whose mean is NaN is among the points handed to the cos2 fit
\* or to its initial guess.
C8_NoNaNInFit ==
    \A i \in 1..Len(fit_input) : ~HasNaN(fit_input[i].means)

\* C9: at the end of a run of main the TemperaturePoints hold exactly one
\* (temperature, mean, std) entry per setpoint of the sweep, in sweep order.
C9_OnePointPerSetpoint ==
    main_pc = "done" =>
        /\ Len(interference) = Len(temperatures)
        /\ Len(data_to_save.data) = Len(temperatures)
        /\ \A i \in 1..Len(interference) : interference[i][1] = temperatures[i]

----------------------------------------------------------------------------
(* The diagnostic plot *)

Plotted == {k \in 1..Len(fitlog) : fitlog[k].plotted}

\* C11: the diagnostic plot is emitted at most once per run, however many
\* windows and setpoints are processed, only when the debug option is set,
\* and it shows the first successfully fitted window.
C11_OnePlotPerRun ==
    /\ plots <= 1
    /\ plots > 0 => SETTINGS.debug
    /\ \A k \in Plotted : k \in FitsOk /\ \A j \in FitsOk : k <= j

----------------------------------------------------------------------------
(* Oscilloscope.readVolt_bin, lines 171-182: the read and its retries *)

\* the mutant gives up as soon as the budget is reached
BudgetReached(elapsed) == elapsed >= RetryBudget

\* line 181: time_ns() - initial_time > 3e9
BudgetExceeded(elapsed) == elapsed > RetryBudget

OscInit ==
    /\ osc_pc = "start"
    /\ now \in 0..MaxStart
    /\ initial_time = 0
    /\ read_log = <<>>
    /\ SETTINGS = None
    /\ signal = <<>>
    /\ EstIdle
    /\ WaitIdle
    /\ MainIdle

\* lines 172-175: the query is written and the clock is read
WriteCurve ==
    /\ osc_pc = "start"
    /\ initial_time' = now
    /\ osc_pc' = "reading"
    /\ UNCHANGED <<now, read_log>>
    /\ UNCHANGED <<estVars, waitVars, mainVars>>

\* lines 176-179: read_raw returns
ReadRawSucceeds ==
    /\ osc_pc = "reading"
    /\ Len(read_log) < MaxAttempts
    /\ \E dt \in 0..MaxStep : now' = now + dt
    /\ read_log' = Append(read_log, [ok |-> TRUE, at |-> now'])
    /\ osc_pc' = "returned"
    /\ UNCHANGED initial_time
    /\ UNCHANGED <<estVars, waitVars, mainVars>>

\* lines 176-181: read_raw raises within the budget, the loop goes round
ReadRawFailsRetry ==
    /\ osc_pc = "reading"
    /\ Len(read_log) < MaxAttempts
    /\ \E dt \in 0..MaxStep : now' = now + dt
    /\ ~BudgetExceeded(now' - initial_time)
    /\ read_log' = Append(read_log, [ok |-> FALSE, at |-> now'])
    /\ UNCHANGED <<osc_pc, initial_time>>
    /\ UNCHANGED <<estVars, waitVars, mainVars>>

\* lines 176-182: read_raw raises past the budget, 'Communication failed'
ReadRawFailsRaise ==
    /\ osc_pc = "reading"
    /\ Len(read_log) < MaxAttempts
    /\ \E dt \in 0..MaxStep : now' = now + dt
    /\ BudgetExceeded(now' - initial_time)
    /\ read_log' = Append(read_log, [ok |-> FALSE, at |-> now'])
    /\ osc_pc' = "raised"
    /\ UNCHANGED initial_time
    /\ UNCHANGED <<estVars, waitVars, mainVars>>

OscNext ==
    \/ WriteCurve
    \/ ReadRawSucceeds
    \/ ReadRawFailsRetry
    \/ ReadRawFailsRaise

SpecOsc == OscInit /\ [][OscNext]_vars

Elapsed(k) == read_log[k].at - initial_time

\* C12: a failing raw read is retried until it succeeds or until more than
\* 3 seconds have elapsed since the first attempt began; a failure seen after
\* that budget raises 'Communication failed', and a successful read at any
\* attempt ends the loop without error.
C12_RetryBudget ==
    LET n == Len(read_log)
    IN  /\ \A k \in 1..n :
              \* an attempt was followed by another one exactly when it
              \* failed with at most 3 seconds elapsed
              /\ k < n => ~read_log[k].ok /\ Elapsed(k) <= 3
              /\ read_log[k].ok => k = n /\ osc_pc = "returned"
              /\ (~read_log[k].ok /\ Elapsed(k) > 3) => k = n /\ osc_pc = "raised"
              /\ (~read_log[k].ok /\ Elapsed(k) <= 3) => osc_pc = "reading"  \/ k < n
        /\ osc_pc = "raised" => n >= 1 /\ ~read_log[n].ok /\ Elapsed(n) > 3
        /\ osc_pc = "returned" => n >= 1 /\ read_log[n].ok
        /\ osc_pc = "reading" => \A k \in 1..n : ~read_log[k].ok /\ Elapsed(k) <= 3

\* a failure at exactly 3 seconds is retried, and the read then succeeds
\* although the budget has run out
C12_Witness ==
    /\ osc_pc = "returned"
    /\ Len(read_log) >= 2
    /\ \E k \in 1..(Len(read_log) - 1) : Elapsed(k) = 3
    /\ Elapsed(Len(read_log)) > 3
    /\ initial_time > 0

----------------------------------------------------------------------------
(* Windows without a peak *)

\* the 0-based positions of c strictly greater than both immediate neighbours
StrictMaxima(c) ==
    {i \in 1..(Len(c) - 2) : At(c, i - 1) < At(c, i) /\ At(c, i + 1) < At(c, i)}

\* c has a sample, or a run of equal samples, strictly greater than the
\* sample just before it and the sample just after it
HasFlatOrStrictMaximum(c) ==
    \E l \in 1..(Len(c) - 2) :
        /\ At(c, l - 1) < At(c, l)
        /\ \E r \in l..(Len(c) - 2) :
              /\ At(c, r + 1) < At(c, r)
              /\ \A j \in l..r : At(c, j) = At(c, l)

\* C13 as stated, by its effect: every window with no sample strictly greater
\* than both immediate neighbours is skipped and contributes no
\* AmplitudeSample.
C13_StrictMaximaOnly ==
    \A k \in 1..Len(fitlog) :
        StrictMaxima(chunks[k]) = {} => k \notin FitsOk

\* C13, amended: every window in which no sample and no run of equal samples
\* is strictly greater than the samples on both sides of it is skipped by the
\* Peak Selector and contributes no AmplitudeSample.
C13_NoPeakSkipped ==
    \A k \in 1..Len(fitlog) :
        ~HasFlatOrStrictMaximum(chunks[k]) =>
            /\ fitlog[k].outcome = "no_peaks"
            /\ fitlog[k].idx = None
            /\ k \notin FitsOk

\* a window that only rises is skipped, the next window is fitted
C13_Witness ==
    /\ pc = "done"
    /\ \E k \in 1..Len(fitlog) :
          /\ Len(chunks[k]) >= 3
          /\ ~HasFlatOrStrictMaximum(chunks[k])
          /\ At(chunks[k], Len(chunks[k]) - 1) > At(chunks[k], 0)
          /\ fitlog[k].outcome = "no_peaks"
    /\ FitsOk # {}
    /\ Len(heights) = 1

\* the detector finds a peak exactly in the windows with such a maximum
PeakDetectionExact ==
    \A k \in 1..Len(fitlog) :
        HasFlatOrStrictMaximum(chunks[k]) <=> fitlog[k].outcome # "no_peaks"

----------------------------------------------------------------------------
(* The smallest half-window radius *)

\* floor(delay * sampling_rate / 2) <= 1, so that delay_samples is 1
RadiusIsOne == SETTINGS.delay * SETTINGS.sampling_rate < 4

\* C14: with delay_samples = 1 every window is skipped, a window with a peak
\* by the high - low < 3 guard on a sub-window of exactly 2 samples; no fit is
\* attempted and (NaN, NaN) is returned, whatever the trace.
C14_RadiusOneSkipsAll ==
    (Segmented /\ RadiusIsOne) =>
        /\ Attempted = {}
        /\ heights = <<>>
        /\ plots = 0
        /\ \A k \in 1..Len(fitlog) :
              fitlog[k].outcome # "no_peaks" =>
                  /\ fitlog[k].outcome = "too_few"
                  /\ fitlog[k].low = fitlog[k].idx - 1
                  /\ fitlog[k].high = fitlog[k].idx + 1
                  /\ fitlog[k].high - fitlog[k].low = 2
        /\ pc = "done" => result = <<NaN, NaN>>

\* two windows with a peak each, both skipped by the guard
C14_Witness ==
    /\ pc = "done"
    /\ RadiusIsOne
    /\ Len(fitlog) >= 2
    /\ \A k \in 1..Len(fitlog) : fitlog[k].outcome = "too_few"
    /\ result = <<NaN, NaN>>

====
